---- MODULE Spec2Model ----
(***************************************************************************)
(* Model of scripts/query_mls.py: load_dotenv (the .env loader) and main   *)
(* (one POST to the MLS search API, a linear scan of the response for the  *)
(* target address, a report on standard output).                           *)
(*                                                                         *)
(* Text is modelled as sequences of one-character strings, so that strip,  *)
(* startswith, "in" and split act on characters as they do in Python.      *)
(***************************************************************************)
EXTENDS Integers, Sequences, FiniteSets, TLC

VARIABLES
    pc,        \* where the run is
    env0,      \* os.environ as it was before load_dotenv was called
    env,       \* os.environ
    file,      \* the lines of the .env file read so far, without their newline
    err,       \* the exception that ended the run, "none" when there is none
    req,       \* the requests sent so far
    resp,      \* the outcome of urlopen
    idx,       \* the number of items of payload["data"] the for loop has taken
    out,       \* the lines printed to standard output
    respOpen   \* the response (or HTTPError) object holds its connection

vars == <<pc, env0, env, file, err, req, resp, idx, out, respOpen>>

(***************************************************************************)
(* Bounds.                                                                 *)
(***************************************************************************)
\* Characters of the .env file, newlines between lines included.
MaxFileLen == 7

\* The characters lines are made of: a letter, the separator, the comment
\* mark and a blank.
Alphabet == {"a", "=", "#", " "}

\* All texts over Alphabet of at most n characters.
Texts(n) == UNION {[1..k -> Alphabet] : k \in 0..n}

\* The number of characters of a file holding these lines.
RECURSIVE FileLen(_)
FileLen(lines) ==
    IF lines = <<>> THEN 0
    ELSE Len(Head(lines)) + (IF Len(lines) > 1 THEN 1 ELSE 0) + FileLen(Tail(lines))

\* The characters one more line may hold after these lines (-1: not even an
\* empty line fits).
Room(lines) ==
    IF lines = <<>> THEN MaxFileLen ELSE MaxFileLen - FileLen(lines) - 1

(***************************************************************************)
(* Python's str operations, as load_dotenv uses them.                      *)
(***************************************************************************)
Whitespace == {" "}

RECURSIVE lstrip(_)
lstrip(s) ==
    IF s # <<>> /\ Head(s) \in Whitespace THEN lstrip(Tail(s)) ELSE s

RECURSIVE rstrip(_)
rstrip(s) ==
    IF s # <<>> /\ s[Len(s)] \in Whitespace
    THEN rstrip(SubSeq(s, 1, Len(s) - 1))
    ELSE s

\* line.strip()
strip(s) == rstrip(lstrip(s))

\* s.startswith(c), c one character
startswith(s, c) == s # <<>> /\ s[1] = c

\* c in s, c one character
HasChar(s, c) == \E i \in 1..Len(s) : s[i] = c

\* The place of the first c in s (s holds one).
IndexOf(s, c) == CHOOSE i \in 1..Len(s) : s[i] = c /\ \A j \in 1..(i - 1) : s[j] # c

\* The split at the last c instead of the first (s.rsplit(c, 1)).
split1_last(s, c) ==
    LET i == CHOOSE j \in 1..Len(s) : s[j] = c /\ \A m \in (j + 1)..Len(s) : s[m] # c
    IN <<SubSeq(s, 1, i - 1), SubSeq(s, i + 1, Len(s))>>

\* s.split(c, 1), for s holding c: what is before the first c, what is after it
split1(s, c) ==
    LET i == IndexOf(s, c) IN <<SubSeq(s, 1, i - 1), SubSeq(s, i + 1, Len(s))>>

(***************************************************************************)
(* os.environ                                                              *)
(***************************************************************************)
\* The environments a run may start from: empty, or holding the key "a" with
\* an empty value, or holding the API key.
RE_API_KEY == <<"R", "E", "_", "A", "P", "I", "_", "K", "E", "Y">>

NoEnv == [k \in {} |-> <<>>]

InitEnvs == {NoEnv, (<<"a">> :> <<>>), (RE_API_KEY :> <<"a">>)}

\* os.environ.get(key, default)
EnvGet(e, key, default) == IF key \in DOMAIN e THEN e[key] ELSE default

\* os.putenv refuses an empty name (setenv: EINVAL, raised as OSError).
PutenvRaises(key) == key = <<>>

\* os.environ[key] = val in the place of setdefault: the value is set whether
\* the key is present or not.
setdefault_overwrite(e, key, val) ==
    IF PutenvRaises(key) THEN [env |-> e, err |-> "OSError"]
    ELSE [env |-> [k \in DOMAIN e \cup {key} |-> IF k = key THEN val ELSE e[k]],
          err |-> "none"]

\* os.environ.setdefault(key, val): the environment after it, and the error
\* it raised. A key that is present is returned as it is; one that is absent
\* is set, which is where putenv may raise.
setdefault(e, key, val) ==
    IF key \in DOMAIN e THEN [env |-> e, err |-> "none"]
    ELSE IF PutenvRaises(key) THEN [env |-> e, err |-> "OSError"]
    ELSE [env |-> (key :> val) @@ e, err |-> "none"]

(***************************************************************************)
(* load_dotenv                                                             *)
(***************************************************************************)
\* The body of the for loop without the test for "#".
LoopBody_nocomment(e, rawline) ==
    LET line == strip(rawline) IN
    IF line = <<>> THEN [env |-> e, err |-> "none"]
    ELSE IF ~HasChar(line, "=") THEN [env |-> e, err |-> "none"]
    ELSE LET kv == split1(line, "=") IN setdefault(e, kv[1], kv[2])

\* The body of the for loop, for one line of the file.
LoopBody(e, rawline) ==
    LET line == strip(rawline) IN
    IF line = <<>> \/ startswith(line, "#") THEN [env |-> e, err |-> "none"]
    ELSE IF ~HasChar(line, "=") THEN [env |-> e, err |-> "none"]
    ELSE LET kv == split1(line, "=") IN setdefault(e, kv[1], kv[2])

\* The whole loop over the lines of a file; it ends at the first error.
RECURSIVE load_dotenv(_, _)
load_dotenv(e, lines) ==
    IF lines = <<>> THEN [env |-> e, err |-> "none"]
    ELSE LET r == LoopBody(e, Head(lines)) IN
         IF r.err # "none" THEN r ELSE load_dotenv(r.env, Tail(lines))

MainIdle ==
    /\ req = <<>>
    /\ resp = [kind |-> "none"]
    /\ idx = 0
    /\ out = <<>>
    /\ respOpen = FALSE

InitLoad ==
    /\ pc = "load_start"
    /\ env0 \in InitEnvs
    /\ env = env0
    /\ file = <<>>
    /\ err = "none"
    /\ MainIdle

\* os.path.exists(path) is false: return.
LoadNoFile ==
    /\ pc = "load_start"
    /\ pc' = "load_returned"
    /\ UNCHANGED <<env0, env, file, err, req, resp, idx, out, respOpen>>

\* The file exists and is opened.
LoadOpen ==
    /\ pc = "load_start"
    /\ pc' = "load_loop"
    /\ UNCHANGED <<env0, env, file, err, req, resp, idx, out, respOpen>>

\* One iteration of "for line in f".
LoadLine ==
    /\ pc = "load_loop"
    /\ Room(file) >= 0
    /\ \E rawline \in Texts(Room(file)) :
          /\ file' = Append(file, rawline)
          /\ LET r == LoopBody(env, rawline) IN
                /\ env' = r.env
                /\ err' = r.err
                /\ pc' = IF r.err = "none" THEN "load_loop" ELSE "load_error"
    /\ UNCHANGED <<env0, req, resp, idx, out, respOpen>>

\* The file is exhausted: the with block closes it and load_dotenv returns.
LoadEOF ==
    /\ pc = "load_loop"
    /\ pc' = "load_returned"
    /\ UNCHANGED <<env0, env, file, err, req, resp, idx, out, respOpen>>

NextLoad == LoadNoFile \/ LoadOpen \/ LoadLine \/ LoadEOF

SpecLoad == InitLoad /\ [][NextLoad]_vars

(***************************************************************************)
(* JSON values, as json.load returns them: None, str, int, dict, list.     *)
(* A dict is a function from the keys it holds; an absent key is a key     *)
(* outside its domain.                                                     *)
(***************************************************************************)
None == [t |-> "null"]
Str(s) == [t |-> "str", v |-> s]
Num(digits) == [t |-> "num", v |-> digits]
Obj(f) == [t |-> "obj", f |-> f]
Arr(items) == [t |-> "arr", v |-> items]

EmptyDict == Obj([k \in {} |-> None])

\* d.get(key, default), for a dict d
Get(d, key, default) == IF key \in DOMAIN d.f THEN d.f[key] ELSE default

\* str(v), as print writes a value
PyStr(v) ==
    IF v.t = "null" THEN <<"N", "o", "n", "e">> ELSE v.v

\* One printed line: the arguments of the print call, literals and values.
Lit(s) == [lit |-> s]
Val(v) == [val |-> PyStr(v)]

\* The dicts holding a subset of the keys of choices, each key with one of
\* its values.
DictsOver(choices) ==
    UNION {{Obj(f) : f \in {g \in [S -> UNION {choices[k] : k \in S}] :
                              \A k \in S : g[k] \in choices[k]}} :
           S \in SUBSET DOMAIN choices}

(***************************************************************************)
(* The responses a run may receive.                                        *)
(***************************************************************************)
\* Items of the data array of a response.
MaxRecords == 2

\* "53 Bridge Street"
Target == <<"5", "3", " ", "B", "r", "i", "d", "g", "e", " ", "S", "t", "r", "e", "e", "t">>

\* "53 Bridge Street, Rome, NY 13440"
AddrRome == <<"5", "3", " ", "B", "r", "i", "d", "g", "e", " ", "S", "t", "r", "e", "e", "t", ",", " ", "R", "o", "m", "e", ",", " ", "N", "Y", " ", "1", "3", "4", "4", "0">>
\* "153 Bridge Street"
AddrOther == <<"1", "5", "3", " ", "B", "r", "i", "d", "g", "e", " ", "S", "t", "r", "e", "e", "t">>
\* "53 Bridge St"
AddrShort == <<"5", "3", " ", "B", "r", "i", "d", "g", "e", " ", "S", "t">>

Addresses ==
    {None} \cup DictsOver([unparsedAddress |-> {Str(AddrRome), Str(AddrOther), Str(AddrShort)}])

Properties ==
    {None,
     Obj([bathroomsTotal |-> Num(<<"2">>), livingArea |-> Num(<<"1", "5", "0", "0">>)]),
     Obj([bedroomsTotal |-> Num(<<"3">>), bathroomsTotal |-> Num(<<"2">>),
          livingArea |-> Num(<<"1", "5", "0", "0">>)])}

Listings ==
    {None} \cup DictsOver([address |-> Addresses, property |-> Properties,
                           listPriceLow |-> {Num(<<"2", "5", "0">>)}])

\* The items of a data array. The attributes main only prints (listingId,
\* listPriceLow) are present or absent on the items whose address holds the
\* target, and present on the others.
HoldsTarget(item) ==
    /\ "listing" \in DOMAIN item.f
    /\ item.f["listing"].t = "obj"
    /\ "address" \in DOMAIN item.f["listing"].f
    /\ item.f["listing"].f["address"].t = "obj"
    /\ "unparsedAddress" \in DOMAIN item.f["listing"].f["address"].f
    /\ item.f["listing"].f["address"].f["unparsedAddress"].v \in {AddrRome, AddrOther}

Records ==
    {item \in DictsOver([listingId |-> {Num(<<"4", "2">>)}, listing |-> Listings]) :
        \/ HoldsTarget(item)
        \/ /\ "listingId" \in DOMAIN item.f
           /\ "listing" \in DOMAIN item.f /\ item.f["listing"].t = "obj"
                  => "listPriceLow" \in DOMAIN item.f["listing"].f}

\* The parsed bodies: no data attribute, a null one, an array of items.
Payloads ==
    {EmptyDict, Obj([data |-> None])}
        \cup {Obj([data |-> Arr(a)]) : a \in UNION {[1..n -> Records] : n \in 0..MaxRecords}}

HttpErrors ==
    {[kind |-> "http", code |-> <<"4", "0", "1">>, reason |-> <<"U", "n", "a", "u", "t", "h", "o", "r", "i", "z", "e", "d">>,
      body |-> <<"d", "e", "n", "i", "e", "d">>],
     [kind |-> "http", code |-> <<"4", "0", "3">>, reason |-> <<"F", "o", "r", "b", "i", "d", "d", "e", "n">>,
      body |-> <<>>]}

\* What urlopen and json.load can come to: a transport failure, an HTTP error
\* status, a body that is no JSON, a parsed payload.
Responses ==
    {[kind |-> "urlerror"], [kind |-> "badjson"]} \cup HttpErrors
        \cup {[kind |-> "ok", payload |-> p] : p \in Payloads}

(***************************************************************************)
(* main                                                                    *)
(***************************************************************************)
\* The report with the beds and baths values exchanged.
Report_swapped(item, listing, prop, address) ==
    << <<Lit("listingId"), Val(Get(item, "listingId", None))>>,
       <<Lit("price"), Val(Get(listing, "listPriceLow", None))>>,
       <<Lit("beds"), Val(Get(prop, "bathroomsTotal", None))>>,
       <<Lit("baths"), Val(Get(prop, "bedroomsTotal", None))>>,
       <<Lit("sqft"), Val(Get(prop, "livingArea", None))>>,
       <<Lit("fullAddress"), Val(Get(address, "unparsedAddress", None))>> >>

\* The lines main prints for a matching item whose property is a dict.
Report(item, listing, prop, address) ==
    << <<Lit("listingId"), Val(Get(item, "listingId", None))>>,
       <<Lit("price"), Val(Get(listing, "listPriceLow", None))>>,
       <<Lit("beds"), Val(Get(prop, "bedroomsTotal", None))>>,
       <<Lit("baths"), Val(Get(prop, "bathroomsTotal", None))>>,
       <<Lit("sqft"), Val(Get(prop, "livingArea", None))>>,
       <<Lit("fullAddress"), Val(Get(address, "unparsedAddress", None))>> >>

\* t in s, for texts
Contains(s, t) ==
    \E i \in 0..(Len(s) - Len(t)) : SubSeq(s, i + 1, i + Len(t)) = t

\* The body of the for loop for one item: what it prints and how it ends
\* ("next": the loop goes on, "return": main returns, "raise": an exception).
\* None.get(...) raises AttributeError, "..." in None raises TypeError.
LoopItem(item) ==
    LET listing == Get(item, "listing", EmptyDict) IN
    IF listing.t # "obj"
    THEN [lines |-> <<>>, how |-> "raise", err |-> "AttributeError"]
    ELSE
    LET address == Get(listing, "address", EmptyDict) IN
    IF address.t # "obj"
    THEN [lines |-> <<>>, how |-> "raise", err |-> "AttributeError"]
    ELSE
    LET text == Get(address, "unparsedAddress", Str(<<>>)) IN
    IF text.t = "null"
    THEN [lines |-> <<>>, how |-> "raise", err |-> "TypeError"]
    ELSE IF ~Contains(text.v, Target)
    THEN [lines |-> <<>>, how |-> "next", err |-> "none"]
    ELSE
    LET prop == Get(listing, "property", EmptyDict) IN
    IF prop.t # "obj"
    THEN [lines |-> SubSeq(Report(item, listing, EmptyDict, address), 1, 2),
          how |-> "raise", err |-> "AttributeError"]
    ELSE [lines |-> Report(item, listing, prop, address), how |-> "return",
          err |-> "none"]

\* The .env files of the runs of main: none, one setting "a", one whose
\* line has an empty key.
MainDotenvFiles == {<< <<"a", "=", "a">> >>, << <<"=", "a">> >>}

MainEnvs == {NoEnv, (RE_API_KEY :> <<"a">>)}

InitMain ==
    /\ pc = "main_start"
    /\ env0 \in MainEnvs
    /\ env = env0
    /\ file = <<>>
    /\ err = "none"
    /\ MainIdle

\* load_dotenv(): the whole call.
MainLoadDotenv ==
    /\ pc = "main_start"
    /\ \/ /\ pc' = "request"
          /\ UNCHANGED <<env, file, err>>
       \/ \E lines \in MainDotenvFiles :
             LET r == load_dotenv(env, lines) IN
                /\ file' = lines
                /\ env' = r.env
                /\ err' = r.err
                /\ pc' = IF r.err = "none" THEN "request" ELSE "error"
    /\ UNCHANGED <<env0, req, resp, idx, out, respOpen>>

\* The request is built and urlopen is called. A transport failure is not
\* caught; an HTTP error status raises HTTPError, which holds the response;
\* otherwise the with block is entered with the response.
Urlopen ==
    /\ pc = "request"
    /\ req' = Append(req, [apikey |-> EnvGet(env, RE_API_KEY, <<>>)])
    /\ \E r \in Responses :
          /\ resp' = r
          /\ \/ /\ r.kind = "urlerror"
                /\ pc' = "error"
                /\ err' = "URLError"
                /\ respOpen' = FALSE
             \/ /\ r.kind = "http"
                /\ pc' = "except"
                /\ err' = "none"
                /\ respOpen' = TRUE
             \/ /\ r.kind \in {"ok", "badjson"}
                /\ pc' = "with"
                /\ err' = "none"
                /\ respOpen' = TRUE
    /\ UNCHANGED <<env0, env, file, idx, out>>

\* payload = json.load(resp), and the end of the with block, which closes
\* the response whether json.load returned or raised.
JsonLoad ==
    /\ pc = "with"
    /\ respOpen' = FALSE
    /\ \/ /\ resp.kind = "badjson"
          /\ pc' = "error"
          /\ err' = "JSONDecodeError"
       \/ /\ resp.kind = "ok"
          /\ pc' = "for"
          /\ err' = "none"
    /\ UNCHANGED <<env0, env, file, req, resp, idx, out>>

\* The except block without print(body).
HttpError_nobody ==
    /\ pc = "except"
    /\ out' = Append(out, <<Lit("HTTP error"), [val |-> resp.code], [val |-> resp.reason]>>)
    /\ pc' = "http_error"
    /\ UNCHANGED <<env0, env, file, err, req, resp, idx, respOpen>>

\* The except block: two prints and return. Nothing closes err.
HttpError ==
    /\ pc = "except"
    /\ out' = out \o << <<Lit("HTTP error"), [val |-> resp.code], [val |-> resp.reason]>>,
                        <<[val |-> resp.body]>> >>
    /\ pc' = "http_error"
    /\ UNCHANGED <<env0, env, file, err, req, resp, idx, respOpen>>

\* One turn of "for item in payload.get("data", [])": the next item, or the
\* end of the loop and print("not found"). Iterating over None raises
\* TypeError.
ForStep ==
    /\ pc = "for"
    /\ LET data == Get(resp.payload, "data", Arr(<<>>)) IN
       IF data.t # "arr"
       THEN /\ pc' = "error"
            /\ err' = "TypeError"
            /\ UNCHANGED <<idx, out>>
       ELSE IF idx = Len(data.v)
       THEN /\ out' = Append(out, <<Lit("not found")>>)
            /\ pc' = "not_found"
            /\ UNCHANGED <<idx, err>>
       ELSE LET r == LoopItem(data.v[idx + 1]) IN
            /\ idx' = idx + 1
            /\ out' = out \o r.lines
            /\ err' = r.err
            /\ pc' = CASE r.how = "next" -> "for"
                       [] r.how = "return" -> "matched"
                       [] OTHER -> "error"
    /\ UNCHANGED <<env0, env, file, req, resp, respOpen>>

NextMain == MainLoadDotenv \/ Urlopen \/ JsonLoad \/ HttpError \/ ForStep

SpecMain == InitMain /\ [][NextMain]_vars

(***************************************************************************)
(* Properties of load_dotenv, checked under SpecLoad.                      *)
(***************************************************************************)
\* A line of the file as the specification reads it: stripped; well-formed
\* when it is not blank, not a comment and holds "="; its KEY is the text
\* before the first "=", its VALUE everything after it.
FirstEq(s) == CHOOSE i \in 1..Len(s) : s[i] = "=" /\ \A j \in 1..(i - 1) : s[j] # "="

WellFormed(rawline) ==
    LET s == strip(rawline) IN
    s # <<>> /\ s[1] # "#" /\ \E i \in 1..Len(s) : s[i] = "="

KeyPart(rawline) == LET s == strip(rawline) IN SubSeq(s, 1, FirstEq(s) - 1)

ValuePart(rawline) == LET s == strip(rawline) IN SubSeq(s, FirstEq(s) + 1, Len(s))

\* The first well-formed line of the file with the key of line i.
FirstWithKey(i) ==
    CHOOSE j \in 1..i :
        /\ WellFormed(file[j]) /\ KeyPart(file[j]) = KeyPart(file[i])
        /\ \A m \in 1..(j - 1) : ~(WellFormed(file[m]) /\ KeyPart(file[m]) = KeyPart(file[i]))

\* C1: every key set before the call keeps its value, whatever the file
\* holds, lines K=V with another V included.
C1_PriorKeysKept ==
    \A k \in DOMAIN env0 : k \in DOMAIN env /\ env[k] = env0[k]

\* load_dotenv has returned after reading a line K=V for a key K that was
\* set before the call to a value other than V.
C1_Witness ==
    /\ pc = "load_returned"
    /\ \E i \in 1..Len(file) :
          /\ WellFormed(file[i])
          /\ KeyPart(file[i]) \in DOMAIN env0
          /\ ValuePart(file[i]) # env0[KeyPart(file[i])]

\* C2, as claimed: after load_dotenv returns, every well-formed line
\* KEY=VALUE has KEY mapped to its VALUE, or to the prior value when KEY was
\* set before the call.
C2_EveryLineMapped ==
    pc = "load_returned" =>
        \A i \in 1..Len(file) :
            WellFormed(file[i]) =>
                LET k == KeyPart(file[i]) IN
                /\ k \in DOMAIN env
                /\ env[k] = IF k \in DOMAIN env0 THEN env0[k] ELSE ValuePart(file[i])

\* C2, amended: after load_dotenv returns, every well-formed line KEY=VALUE
\* has KEY mapped to the VALUE of the first well-formed line of the file with
\* that KEY, or to the prior value when KEY was set before the call.
C2_FirstLineMapped ==
    pc = "load_returned" =>
        \A i \in 1..Len(file) :
            WellFormed(file[i]) =>
                LET k == KeyPart(file[i]) IN
                /\ k \in DOMAIN env
                /\ env[k] = IF k \in DOMAIN env0 THEN env0[k]
                            ELSE ValuePart(file[FirstWithKey(i)])

\* load_dotenv has returned from a file holding two well-formed lines with
\* one key, not set before the call, and two values, the second holding "=".
C2_Witness ==
    /\ pc = "load_returned"
    /\ \E i, j \in 1..Len(file) :
          /\ i < j
          /\ WellFormed(file[i]) /\ WellFormed(file[j])
          /\ KeyPart(file[i]) = KeyPart(file[j])
          /\ KeyPart(file[i]) \notin DOMAIN env0
          /\ ValuePart(file[i]) # ValuePart(file[j])
          /\ \E n \in 1..Len(ValuePart(file[j])) : ValuePart(file[j])[n] = "="

\* A line that is blank after stripping, whose first non-blank character is
\* "#", or that holds no "=".
Skippable(rawline) ==
    \/ \A i \in 1..Len(rawline) : rawline[i] \in Whitespace
    \/ \E i \in 1..Len(rawline) :
          rawline[i] = "#" /\ \A j \in 1..(i - 1) : rawline[j] \in Whitespace
    \/ \A i \in 1..Len(rawline) : rawline[i] # "="

\* C8: a line that is blank, a comment or without "=" leaves the environment
\* as it was, raises nothing, and the loop goes on to the next line.
C8_SkippedLineNoEffect ==
    [][(pc = "load_loop" /\ Len(file') = Len(file) + 1 /\ Skippable(file'[Len(file')]))
          => (env' = env /\ err' = "none" /\ pc' = "load_loop")]_vars

\* A comment line holding "=" has just been read, after a line that set a key.
C8_Witness ==
    /\ pc = "load_loop"
    /\ Len(file) >= 2
    /\ Skippable(file[Len(file)])
    /\ \E i \in 1..Len(file[Len(file)]) : file[Len(file)][i] = "="
    /\ env # env0

\* C9: load_dotenv never ends in an error because of what a line holds.
C9_NoLineRaises == err = "none"

(***************************************************************************)
(* Properties of main, checked under SpecMain.                             *)
(***************************************************************************)
\* The run has ended: main returned or an exception left it.
Terminal == pc \in {"matched", "not_found", "http_error", "error"}

\* The attribute at a path of keys below v; None when a key is missing or a
\* level on the way is not a dict.
RECURSIVE Lookup(_, _)
Lookup(v, path) ==
    IF path = <<>> THEN v
    ELSE IF v.t # "obj" \/ Head(path) \notin DOMAIN v.f THEN None
    ELSE Lookup(v.f[Head(path)], Tail(path))

\* The item's listing.address.unparsedAddress holds the target.
Matching(item) ==
    LET a == Lookup(item, <<"listing", "address", "unparsedAddress">>) IN
    a.t = "str" /\ \E i \in 0..(Len(a.v) - Len(Target)) : SubSeq(a.v, i + 1, i + Len(Target)) = Target

\* The data array of the parsed payload; empty when data is missing or null.
DataItems ==
    LET d == Lookup(resp.payload, <<"data">>) IN IF d.t = "arr" THEN d.v ELSE <<>>

FirstMatch ==
    CHOOSE i \in 1..Len(DataItems) :
        Matching(DataItems[i]) /\ \A j \in 1..(i - 1) : ~Matching(DataItems[j])

\* What str() makes of an attribute: its text, "None" for a missing one.
Shown(v) == [val |-> IF v.t = "null" THEN <<"N", "o", "n", "e">> ELSE v.v]

\* The six labelled lines for an item.
Expected(item) ==
    << <<Lit("listingId"), Shown(Lookup(item, <<"listingId">>))>>,
       <<Lit("price"), Shown(Lookup(item, <<"listing", "listPriceLow">>))>>,
       <<Lit("beds"), Shown(Lookup(item, <<"listing", "property", "bedroomsTotal">>))>>,
       <<Lit("baths"), Shown(Lookup(item, <<"listing", "property", "bathroomsTotal">>))>>,
       <<Lit("sqft"), Shown(Lookup(item, <<"listing", "property", "livingArea">>))>>,
       <<Lit("fullAddress"), Shown(Lookup(item, <<"listing", "address", "unparsedAddress">>))>> >>

NotFoundLine == <<Lit("not found")>>

\* C3: when the data array holds items whose address holds the target, the
\* run ends having printed the fields of the first of them and nothing else,
\* the scan having stopped at that item.
C3_FirstMatchReported ==
    (resp.kind = "ok" /\ Terminal /\ \E i \in 1..Len(DataItems) : Matching(DataItems[i])) =>
        /\ pc = "matched"
        /\ idx = FirstMatch
        /\ out = Expected(DataItems[FirstMatch])

\* C4: when the request succeeds and no item's address holds the target
\* (data empty, missing or null included), the whole output is the line
\* "not found"; and "not found" is printed in that case only.
C4_NotFoundExactly ==
    /\ (resp.kind = "ok" /\ Terminal /\ \A i \in 1..Len(DataItems) : ~Matching(DataItems[i]))
          => out = <<NotFoundLine>>
    /\ (\E n \in 1..Len(out) : out[n] = NotFoundLine)
          => (resp.kind = "ok" /\ \A i \in 1..Len(DataItems) : ~Matching(DataItems[i]))

\* C5: on an HTTP error status main prints the status code and reason, then
\* the body, and returns: one request sent, no item scanned, no exception,
\* nothing else printed.
C5_HttpErrorReport ==
    resp.kind = "http" =>
        /\ pc \in {"except", "http_error"}
        /\ err = "none"
        /\ idx = 0
        /\ Len(req) = 1
        /\ pc = "except" => out = <<>>
        /\ pc = "http_error" =>
              out = << <<Lit("HTTP error"), [val |-> resp.code], [val |-> resp.reason]>>,
                       <<[val |-> resp.body]>> >>

\* main has returned from the except block of a response with a body.
C5_Witness ==
    pc = "http_error" /\ resp.kind = "http" /\ resp.body # <<>> /\ Len(out) = 2

\* C6: once the response is parsed, main never ends in an error, whatever
\* attributes are missing or null.
C6_NoErrorAfterParse == resp.kind = "ok" => err = "none"

\* C7, as claimed: on a match main prints seven lines, those of the six
\* labels in their order among them.
C7_SevenLines ==
    pc = "matched" =>
        /\ Len(out) = 7
        /\ \A n \in 1..6 : out[n] = Expected(DataItems[idx])[n]

\* C7, amended: on a match main prints six lines, one per label in the order
\* listingId, price, beds, baths, sqft, fullAddress, with the matched item's
\* values; when the matched item's listing.property is null it prints the
\* first two of them and ends with AttributeError.
C7_SixLines ==
    (resp.kind = "ok" /\ Terminal /\ idx >= 1 /\ idx <= Len(DataItems) /\ Matching(DataItems[idx])) =>
        LET item == DataItems[idx] IN
        IF "property" \in DOMAIN item.f["listing"].f /\ item.f["listing"].f["property"].t = "null"
        THEN pc = "error" /\ err = "AttributeError" /\ out = SubSeq(Expected(item), 1, 2)
        ELSE pc = "matched" /\ err = "none" /\ out = Expected(item)

\* main has returned after matching the second item of the array, one with
\* every attribute but bedroomsTotal.
C7_Witness ==
    /\ pc = "matched"
    /\ idx = 2
    /\ out[1] = <<Lit("listingId"), [val |-> <<"4", "2">>]>>
    /\ out[3] = <<Lit("beds"), [val |-> <<"N", "o", "n", "e">>]>>
    /\ out[4] = <<Lit("baths"), [val |-> <<"2">>]>>

====
